---------------------------- MODULE Spec2Model ----------------------------
(*
  A model of ludwig's Ray backend (src/ludwig/backend/ray.py):

    - get_horovod_kwargs, the resource bucketer, and the worker-group
      configuration RayTrainer.__init__ builds from it and from the caller's
      horovod_kwargs (ClusterSpec);
    - RayRemoteModel, RayTrainer and RayPredictor used by one caller that
      issues train, train_online, batch_predict and batch_evaluation calls
      one after the other (Spec);
    - one batch_evaluation call with its partition tasks and its
      MetricCollector actor in full interleaving (EvalSpec);
    - RayTrainer alone, with its validation_field and validation_metric
      queries (TrainerSpec);
    - RayPredictor alone, with shutdown, batch_collect_activations and a
      batch_evaluation whose capture fails (PredictorSpec);

  and of the dataset cache manager (src/ludwig/data/cache/manager.py):
  put_dataset and get_dataset over a file system, with and without a cache
  directory (CacheSpec).

  Counts of a resource are the integers ray reports (int(...) of an
  integral value).  Metric values are fixed-point integers, in halves.
*)
EXTENDS Integers, Sequences, FiniteSets, TLC

VARIABLES
    nodes,      \* ray.state.nodes(): the node resource reports, in report order
    trainer,    \* the RayTrainer the backend created, or its failure
    model,      \* the caller's model object: its weights
    store,      \* ray's object store: the states put, each with the call that put it
    ncalls,     \* coordinator calls begun so far
    call,       \* the coordinator call in progress, or the last one ended
    workers,    \* the executor's workers: where each is in the dispatched closure
    stream,     \* the lazy result of the last map_partitions
    tasks,      \* the partition tasks of that stream
    actors,     \* RayPredictor.actor_handles: the MetricCollector actors
    validation, \* each worker's trainer: its validation field, once it has one
    nshutdown,  \* RayPredictor.shutdown calls made so far
    cache_dir,  \* CacheManager._cache_dir
    fs,         \* the file system: the files the cache manager wrote
    lastget,    \* what the last get_dataset returned, until the next put_dataset
    nputs       \* put_dataset calls made so far

callVars == <<model, store, ncalls, call, workers, stream, tasks, actors,
              validation, nshutdown>>
cacheVars == <<cache_dir, fs, lastget, nputs>>
vars == <<nodes, trainer, model, store, ncalls, call, workers, stream, tasks,
          actors, validation, nshutdown, cache_dir, fs, lastget, nputs>>

----------------------------------------------------------------------------
(* Bounds *)

MaxNodes == 4     \* nodes in the cluster
MaxGpu == 2       \* 'GPU' count of a node
MaxCalls == 2     \* coordinator calls one caller issues
NumWorkers == 2   \* workers of the executor
MaxWeight == 1    \* model weights range over 0..MaxWeight
MaxPuts == 2       \* put_dataset calls on one cache manager
MaxShutdowns == 2  \* shutdown calls one caller issues
MaxPartitions == 1   \* partitions of a dataset, in a sequence of calls
EvalPartitions == 3  \* partitions of the dataset of a single batch_evaluation

----------------------------------------------------------------------------
(* get_horovod_kwargs *)

\* 'CPU' counts of a node.  The bucketing reads one kind only and is the same
\* code for either; the GPU counts range up to the bound.
CpuCounts == {0, 1}

\* node['Resources'] of one node; a count of 0 also stands for an absent key,
\* which node_resources.get(key, 0) reads as 0.
NodeResources == [CPU : CpuCounts, GPU : 0..MaxGpu]

RECURSIVE SumGPU(_)
\* ray.cluster_resources().get('GPU', 0): the cluster-wide total
SumGPU(resources) ==
    IF resources = <<>> THEN 0
    ELSE Head(resources).GPU + SumGPU(Tail(resources))

\* use_gpu = int(ray.cluster_resources().get('GPU', 0)) > 0
\* (variant: the GPU total is not consulted)
NeverUseGpu(resources) == FALSE
UseGpu(resources) == SumGPU(resources) > 0

\* key = 'GPU' if use_gpu else 'CPU'
ResourceKey(use_gpu) == IF use_gpu THEN "GPU" ELSE "CPU"

\* int(node_resources.get(key, 0))
NodeCount(node_resources, key) ==
    IF key = "GPU" THEN node_resources.GPU ELSE node_resources.CPU

RECURSIVE BucketKeys(_, _)
\* The keys of the defaultdict `buckets`, in insertion order: a dict iterates
\* its keys in the order they were first inserted.
BucketKeys(resources, key) ==
    IF resources = <<>> THEN <<>>
    ELSE LET n == Len(resources)
             before == BucketKeys(SubSeq(resources, 1, n - 1), key)
             c == NodeCount(resources[n], key)
         IN  IF \E i \in 1..Len(before) : before[i] = c
             THEN before
             ELSE Append(before, c)

\* buckets[slots]: the reports appended under that key (their positions)
Bucket(resources, key, slots) ==
    {i \in 1..Len(resources) : NodeCount(resources[i], key) = slots}

\* get_total_resources((slots, resources)) = slots * len(resources)
GetTotalResources(resources, key, slots) ==
    slots * Cardinality(Bucket(resources, key, slots))

\* One step of max(iterable, key=...): the running maximum is replaced only by
\* a strictly greater item, so the first of several maximal items is kept.
\* (variant: an equal item replaces the running maximum)
KeepLast(best, cand, resources, key) ==
    IF GetTotalResources(resources, key, cand)
         >= GetTotalResources(resources, key, best)
    THEN cand ELSE best
MaxStep(best, cand, resources, key) ==
    IF GetTotalResources(resources, key, cand)
         > GetTotalResources(resources, key, best)
    THEN cand ELSE best

RECURSIVE MaxBucket(_, _, _)
\* max(buckets.items(), key=get_total_resources) over a non-empty dict
MaxBucket(keys, resources, key) ==
    IF Len(keys) = 1 THEN keys[1]
    ELSE MaxStep(MaxBucket(SubSeq(keys, 1, Len(keys) - 1), resources, key),
                 keys[Len(keys)], resources, key)

\* The dict get_horovod_kwargs returns, for a non-empty list of reports.
\* (variant: num_hosts counts every report, not the bucket's)
CountEveryNode(resources) ==
    LET use_gpu == UseGpu(resources)
        key == ResourceKey(use_gpu)
        best_slots == MaxBucket(BucketKeys(resources, key), resources, key)
    IN  [num_slots |-> best_slots,
         num_hosts |-> Len(resources),
         use_gpu |-> use_gpu]
GetHorovodKwargs(resources) ==
    LET use_gpu == UseGpu(resources)
        key == ResourceKey(use_gpu)
        best_slots == MaxBucket(BucketKeys(resources, key), resources, key)
    IN  [num_slots |-> best_slots,
         num_hosts |-> Cardinality(Bucket(resources, key, best_slots)),
         use_gpu |-> use_gpu]

----------------------------------------------------------------------------
(* RayRemoteModel *)

Weights == 0..MaxWeight
NoWeights == -1

\* RayRemoteModel.__init__: self.state = ray.put(state) adds one entry to the
\* object store, holding a copy of the model's state as it is now.
\* (variant: a later capture reuses the first entry)
ReuseFirstPut(st, state, c) ==
    IF st = <<>> THEN Append(st, [state |-> state, call |-> c]) ELSE st
RayRemoteModelInit(st, state, c) ==
    Append(st, [state |-> state, call |-> c])

\* RayRemoteModel.load: a new object of the class, set to ray.get(self.state)
\* (variant: load reads the caller's live model)
LoadLiveModel(handle) == model
RayRemoteModelLoad(handle) == store[handle].state

----------------------------------------------------------------------------
(* RayRemoteTrainer and RayTrainer *)

Workers == 1..NumWorkers

TrainKinds == {"train", "train_online"}
InferKinds == {"batch_predict", "batch_evaluation"}

\* What a worker's closure gave: nothing yet, None, a value, or an exception
Pending == [tag |-> "pending", weights |-> NoWeights, stats |-> 0]
NoneResult == [tag |-> "none", weights |-> NoWeights, stats |-> 0]
RaisedResult == [tag |-> "raised", weights |-> NoWeights, stats |-> 0]
Value(weights, stats) == [tag |-> "value", weights |-> weights, stats |-> stats]

\* The statistics a worker's train returns are that worker's own.
TrainStats(w) == w

\* RayRemoteTrainer.train / train_online: None is passed through; otherwise
\* the trained model is replaced by its weights (train keeps the stats).
RayRemoteTrainerResult(kind, w, trained) ==
    IF trained = NoWeights THEN NoneResult
    ELSE IF kind = "train" THEN Value(trained, TrainStats(w))
    ELSE Value(trained, 0)

\* `trained` records what the base class's method gave the closure.
IdleWorker == [pc |-> "idle", inst |-> NoWeights, result |-> Pending,
               trained |-> NoWeights]

\* The validation field of a worker's trainer: none until the worker has
\* trained, then the worker's own.
NoValidation == 0
ValidationOf(w) == w

NoMetrics == [k \in {} |-> 0]

NoCall == [id |-> 0, kind |-> "none", status |-> "idle", handle |-> 0,
           before |-> NoWeights, results |-> [w \in Workers |-> Pending],
           stats |-> 0, metrics |-> NoMetrics, error |-> "none",
     value |-> NoValidation]

NewCall(kind, handle) ==
    [id |-> ncalls + 1, kind |-> kind, status |-> "running", handle |-> handle,
     before |-> model, results |-> [w \in Workers |-> Pending],
     stats |-> 0, metrics |-> NoMetrics, error |-> "none",
     value |-> NoValidation]

\* `captured` records the model's state at the time the call captured it.
NoStream == [call |-> 0, kind |-> "none", handle |-> 0, actor |-> 0,
             captured |-> NoWeights]

\* The caller is in no call and may issue one.
CanCall == call.status # "running" /\ ncalls < MaxCalls

\* RayTrainer.train / train_online, up to the executor's dispatch: the model
\* is captured and the closure sent to every worker.
TrainBegin(kind) ==
    /\ CanCall
    /\ store' = RayRemoteModelInit(store, model, ncalls + 1)
    /\ call' = NewCall(kind, Len(store'))
    /\ ncalls' = ncalls + 1
    /\ workers' = [w \in Workers |-> [IdleWorker EXCEPT !.pc = "dispatched"]]
    /\ UNCHANGED <<nodes, trainer, model, stream, tasks, actors, validation, nshutdown>>
    /\ UNCHANGED cacheVars

\* The closure on worker w: remote_model.load()
WorkerLoad(w) ==
    /\ call.status = "running"
    /\ workers[w].pc = "dispatched"
    /\ workers' = [workers EXCEPT ![w].pc = "loaded",
                                  ![w].inst = RayRemoteModelLoad(call.handle)]
    /\ UNCHANGED <<nodes, trainer, model, store, ncalls, call, stream, tasks, actors, validation, nshutdown>>
    /\ UNCHANGED cacheVars

\* The closure on worker w: trainer.train(...) or trainer.train_online(...) on
\* the loaded instance, which training changes.  RemoteTrainer's method gives
\* the trained model, or None, or raises.
WorkerTrain(w) ==
    /\ call.status = "running"
    /\ workers[w].pc = "loaded"
    /\ \/ /\ \E trained \in Weights \cup {NoWeights} :
                workers' = [workers EXCEPT
                    ![w] = [pc |-> "returned", inst |-> NoWeights,
                            result |-> RayRemoteTrainerResult(call.kind, w, trained),
                            trained |-> trained]]
          /\ validation' = [validation EXCEPT ![w] = ValidationOf(w)]
       \/ /\ workers' = [workers EXCEPT
                    ![w] = [pc |-> "raised", inst |-> NoWeights,
                            result |-> RaisedResult, trained |-> NoWeights]]
          /\ UNCHANGED validation
    /\ UNCHANGED <<nodes, trainer, model, store, ncalls, call, stream, tasks, actors, nshutdown>>
    /\ UNCHANGED cacheVars

\* self.executor.execute(...): blocks until every worker has returned, and
\* raises when a worker has raised.
\* (variant: a worker's exception is not raised to the caller)
ExecuteSwallows(ws) ==
    IF \A w \in Workers : ws[w].pc \in {"returned", "raised"} THEN "returns"
    ELSE "blocks"
Execute(ws) ==
    IF \E w \in Workers : ws[w].pc = "raised" THEN "raises"
    ELSE IF \A w \in Workers : ws[w].pc = "returned" THEN "returns"
    ELSE "blocks"

\* results[0]
\* (variant: the last worker's result)
LastResult(results) == results[NumWorkers]
FirstResult(results) == results[1]

Results == [w \in Workers |-> workers[w].result]

\* RayTrainer.train / train_online after execute returned: the first result is
\* unpacked and its weights set on the caller's model.  A first result of None
\* does not unpack (train), and is no list of weights to set (train_online).
\* (variant: a first result of None is skipped and the call returns)
ReconcileSkipsNone ==
    /\ call.status = "running"
    /\ call.kind \in TrainKinds
    /\ Execute(workers) = "returns"
    /\ LET r == FirstResult(Results)
       IN  /\ model' = IF r.tag = "value" THEN r.weights ELSE model
           /\ call' = [call EXCEPT !.status = "returned",
                                   !.results = Results,
                                   !.stats = r.stats]
    /\ workers' = [w \in Workers |-> IdleWorker]
    /\ UNCHANGED <<nodes, trainer, store, ncalls, stream, tasks, actors,
                   validation, nshutdown>>
    /\ UNCHANGED cacheVars
\* (variant: the first result is used as soon as the first worker returned)
ReconcileEarly ==
    /\ call.status = "running"
    /\ call.kind \in TrainKinds
    /\ workers[1].pc = "returned"
    /\ LET r == FirstResult(Results)
       IN  IF r.tag = "value"
           THEN /\ model' = r.weights
                /\ call' = [call EXCEPT !.status = "returned",
                                        !.results = Results,
                                        !.stats = r.stats]
           ELSE /\ model' = model
                /\ call' = [call EXCEPT !.status = "failed",
                                        !.results = Results,
                                        !.error = "TypeError"]
    /\ workers' = [w \in Workers |-> IdleWorker]
    /\ UNCHANGED <<nodes, trainer, store, ncalls, stream, tasks, actors,
                   validation, nshutdown>>
    /\ UNCHANGED cacheVars
TrainReconcile ==
    /\ call.status = "running"
    /\ call.kind \in TrainKinds
    /\ Execute(workers) = "returns"
    /\ LET r == FirstResult(Results)
       IN  IF r.tag = "value"
           THEN /\ model' = r.weights
                /\ call' = [call EXCEPT !.status = "returned",
                                        !.results = Results,
                                        !.stats = r.stats]
           ELSE /\ model' = model
                /\ call' = [call EXCEPT !.status = "failed",
                                        !.results = Results,
                                        !.error = "TypeError"]
    /\ workers' = [w \in Workers |-> IdleWorker]
    /\ UNCHANGED <<nodes, trainer, store, ncalls, stream, tasks, actors, validation, nshutdown>>
    /\ UNCHANGED cacheVars

\* execute raises: the exception leaves train / train_online before
\* set_weights.
TrainExecuteRaises ==
    /\ call.status = "running"
    /\ call.kind \in TrainKinds
    /\ Execute(workers) = "raises"
    /\ call' = [call EXCEPT !.status = "failed", !.results = Results,
                            !.error = "WorkerError"]
    /\ workers' = [w \in Workers |-> IdleWorker]
    /\ UNCHANGED <<nodes, trainer, model, store, ncalls, stream, tasks, actors, validation, nshutdown>>
    /\ UNCHANGED cacheVars

QueryKinds == {"validation_field", "validation_metric"}

\* self.executor.execute_single(fn): fn on the first worker's trainer
\* (variant: on the last worker's)
ExecuteOnLast(values) == values[NumWorkers]
ExecuteSingle(values) == values[1]

\* RayTrainer.validation_field / validation_metric, called when the caller is
\* in no call: the attribute of the first worker's trainer is read, which
\* fails while that trainer has none.
ValidationQuery(attr) ==
    /\ call.status # "running"
    /\ LET v == ExecuteSingle(validation)
       IN  call' = IF v = NoValidation
                   THEN [NoCall EXCEPT !.kind = attr, !.status = "failed",
                                       !.error = "NotYetTrainedError"]
                   ELSE [NoCall EXCEPT !.kind = attr, !.status = "returned",
                                       !.value = v]
    /\ UNCHANGED <<nodes, trainer, model, store, ncalls, workers, stream,
                   tasks, actors, validation, nshutdown>>
    /\ UNCHANGED cacheVars

----------------------------------------------------------------------------
(* MetricCollector and RayPredictor *)

MetricNames == {"loss", "acc"}

\* The loss of a partition, in halves: 1.0, 2.0, 0.5, then 4.0, 8.0, ...
RECURSIVE PartitionLoss(_)
PartitionLoss(p) ==
    IF p = 1 THEN 2 ELSE IF p = 2 THEN 4 ELSE IF p = 3 THEN 1
    ELSE IF p = 4 THEN 8 ELSE 2 * PartitionLoss(p - 1)

\* The metrics predictor.batch_evaluation computes on partition p
PartitionMetrics(p) == [k \in MetricNames |->
                            IF k = "loss" THEN PartitionLoss(p) ELSE 1]

RECURSIVE SumDicts(_)
\* sum_dicts(dicts): the mappings merged in the order received, the values of
\* a key summed
SumDicts(dicts) ==
    IF dicts = <<>> THEN NoMetrics
    ELSE LET n == Len(dicts)
             summed == SumDicts(SubSeq(dicts, 1, n - 1))
             d == dicts[n]
         IN  [k \in DOMAIN summed \cup DOMAIN d |->
                IF k \in DOMAIN summed /\ k \in DOMAIN d THEN summed[k] + d[k]
                ELSE IF k \in DOMAIN summed THEN summed[k]
                ELSE d[k]]

\* MetricCollector.remote(): a new actor with an empty list, alive until it is
\* killed; `call` records the call that created it.
NewCollector == [metrics |-> <<>>, alive |-> TRUE, call |-> ncalls + 1]

\* metric_collector = MetricCollector.remote()
\* self.actor_handles.append(metric_collector)
\* (variant: the predictor keeps one collector and uses it for every call)
ShareCollector(handles) ==
    IF handles = <<>> THEN Append(handles, NewCollector) ELSE handles
CreateCollector(handles) == Append(handles, NewCollector)

\* ray.kill(handle): the actor is dead; killing a dead actor changes nothing.
RayKill(collector) == [collector EXCEPT !.alive = FALSE]

\* RayPredictor.shutdown: for handle in self.actor_handles: ray.kill(handle)
\* (variant: only the newest handle is killed)
KillNewestOnly(handles) ==
    [a \in DOMAIN handles |->
        IF a = Len(handles) THEN RayKill(handles[a]) ELSE handles[a]]
KillAll(handles) == [a \in DOMAIN handles |-> RayKill(handles[a])]

\* MetricCollector.add_metrics: self.metrics.append(metrics)
\* (variant: the list is replaced, not appended to)
KeepLatestOnly(collector, metrics) ==
    [collector EXCEPT !.metrics = <<metrics>>]
AddMetrics(collector, metrics) ==
    [collector EXCEPT !.metrics = Append(@, metrics)]

\* MetricCollector.collect
Collect(collector) == SumDicts(collector.metrics)

ScheduledTask == [pc |-> "scheduled", loaded |-> NoWeights]

\* No partition task is between sending its metrics and the actor's reply.
Quiescent == \A p \in DOMAIN tasks : tasks[p].pc # "adding"

\* RayPredictor.batch_predict on a dataset of n partitions: the model is
\* captured and map_partitions gives the lazy predictions at once.
BatchPredict(n) ==
    /\ CanCall
    /\ Quiescent
    /\ store' = RayRemoteModelInit(store, model, ncalls + 1)
    /\ call' = [NewCall("batch_predict", Len(store')) EXCEPT !.status = "returned"]
    /\ ncalls' = ncalls + 1
    /\ stream' = [call |-> ncalls + 1, kind |-> "batch_predict",
                  handle |-> Len(store'), actor |-> 0, captured |-> model]
    /\ tasks' = [p \in 1..n |-> ScheduledTask]
    /\ UNCHANGED <<nodes, trainer, model, workers, actors, validation, nshutdown>>
    /\ UNCHANGED cacheVars

\* RayPredictor.batch_evaluation on a dataset of n partitions, up to
\* ray.get(metric_collector.collect.remote()): a collector is created and kept
\* in actor_handles, the model is captured, map_partitions gives the lazy
\* predictions, and collect is sent to the actor.
BatchEvaluation(n) ==
    /\ CanCall
    /\ Quiescent
    /\ actors' = CreateCollector(actors)
    /\ store' = RayRemoteModelInit(store, model, ncalls + 1)
    /\ call' = NewCall("batch_evaluation", Len(store'))
    /\ ncalls' = ncalls + 1
    /\ stream' = [call |-> ncalls + 1, kind |-> "batch_evaluation",
                  handle |-> Len(store'), actor |-> Len(actors'),
                  captured |-> model]
    /\ tasks' = [p \in 1..n |-> ScheduledTask]
    /\ UNCHANGED <<nodes, trainer, model, workers, validation, nshutdown>>
    /\ UNCHANGED cacheVars

\* Where a partition task is once the predictor has run on its partition:
\* batch_evaluate_partition waits in ray.get for the collector's reply to
\* add_metrics before it returns the predictions; batch_predict_partition
\* returns them at once.
\* (variant: add_metrics is sent and not waited for)
ReturnWithoutWaiting(kind) == "done"
AfterPredictor(kind) ==
    IF kind = "batch_evaluation" THEN "adding" ELSE "done"

\* The task runtime evaluates partition p of the stream, at any time after
\* map_partitions and while the caller is in no trainer call:
\* batch_predict_partition / batch_evaluate_partition load the model and run
\* the predictor, which may raise; batch_evaluate_partition then sends its
\* metrics to the collector and waits for the reply.
TaskRun(p) ==
    /\ p \in DOMAIN tasks
    /\ tasks[p].pc = "scheduled"
    /\ ~(call.status = "running" /\ call.kind \in TrainKinds)
    /\ \E outcome \in {"ok", "raised"} :
        tasks' = [tasks EXCEPT
            ![p] = [pc |-> IF outcome = "raised" THEN "raised"
                           ELSE AfterPredictor(stream.kind),
                    loaded |-> RayRemoteModelLoad(stream.handle)]]
    /\ UNCHANGED <<nodes, trainer, model, store, ncalls, call, workers, stream, actors, validation, nshutdown>>
    /\ UNCHANGED cacheVars

\* The actor takes partition p's add_metrics call from its queue; the task's
\* ray.get returns and the task returns its predictions.
ProcessAdd(p) ==
    /\ p \in DOMAIN tasks
    /\ tasks[p].pc = "adding"
    /\ actors[stream.actor].alive
    /\ actors' = [actors EXCEPT
                    ![stream.actor] = AddMetrics(@, PartitionMetrics(p))]
    /\ tasks' = [tasks EXCEPT ![p].pc = "done"]
    /\ UNCHANGED <<nodes, trainer, model, store, ncalls, call, workers, stream, validation, nshutdown>>
    /\ UNCHANGED cacheVars

\* Partition p's add_metrics call finds the actor killed: the task's ray.get
\* raises.
AddFails(p) ==
    /\ p \in DOMAIN tasks
    /\ tasks[p].pc = "adding"
    /\ ~actors[stream.actor].alive
    /\ tasks' = [tasks EXCEPT ![p].pc = "raised"]
    /\ UNCHANGED <<nodes, trainer, model, store, ncalls, call, workers, stream,
                   actors, validation, nshutdown>>
    /\ UNCHANGED cacheVars

\* The actor takes the caller's collect call from its queue; batch_evaluation
\* returns (metrics, predictions).
ProcessCollect ==
    /\ call.status = "running"
    /\ call.kind = "batch_evaluation"
    /\ actors[stream.actor].alive
    /\ call' = [call EXCEPT !.status = "returned",
                            !.metrics = Collect(actors[stream.actor])]
    /\ UNCHANGED <<nodes, trainer, model, store, ncalls, workers, stream, tasks, actors, validation, nshutdown>>
    /\ UNCHANGED cacheVars

\* RayPredictor.batch_evaluation when RayRemoteModel(model) raises (the
\* model's state cannot be captured): the collector was created and kept in
\* actor_handles before, nothing is published and no task is scheduled.
BatchEvaluationCaptureFails ==
    /\ CanCall
    /\ Quiescent
    /\ actors' = CreateCollector(actors)
    /\ call' = [NewCall("batch_evaluation", 0) EXCEPT
                    !.status = "failed", !.error = "SerializationError"]
    /\ ncalls' = ncalls + 1
    /\ UNCHANGED <<nodes, trainer, model, store, workers, stream, tasks,
                   validation, nshutdown>>
    /\ UNCHANGED cacheVars

\* RayPredictor.batch_collect_activations(model, ...) on a dataset of n
\* partitions: raise NotImplementedError() is the whole body.
\* (variant: implemented the way batch_predict is)
CollectLikePredict(n) ==
    /\ CanCall
    /\ Quiescent
    /\ store' = RayRemoteModelInit(store, model, ncalls + 1)
    /\ call' = [NewCall("batch_collect_activations", Len(store')) EXCEPT
                    !.status = "returned"]
    /\ ncalls' = ncalls + 1
    /\ stream' = [call |-> ncalls + 1, kind |-> "batch_predict",
                  handle |-> Len(store'), actor |-> 0, captured |-> model]
    /\ tasks' = [p \in 1..n |-> ScheduledTask]
    /\ UNCHANGED <<nodes, trainer, model, workers, actors, validation,
                   nshutdown>>
    /\ UNCHANGED cacheVars
BatchCollectActivations(n) ==
    /\ call.status # "running"
    /\ call' = [NoCall EXCEPT !.kind = "batch_collect_activations",
                              !.status = "failed",
                              !.error = "NotImplementedError"]
    /\ UNCHANGED <<nodes, trainer, model, store, ncalls, workers, stream,
                   tasks, actors, validation, nshutdown>>
    /\ UNCHANGED cacheVars

\* RayPredictor.shutdown, called when the caller is in no call: every handle
\* in actor_handles is killed; the list is kept.
PredictorShutdown ==
    /\ call.status # "running"
    /\ nshutdown < MaxShutdowns
    /\ actors' = KillAll(actors)
    /\ call' = [NoCall EXCEPT !.kind = "shutdown", !.status = "returned"]
    /\ nshutdown' = nshutdown + 1
    /\ UNCHANGED <<nodes, trainer, model, store, ncalls, workers, stream,
                   tasks, validation>>
    /\ UNCHANGED cacheVars

----------------------------------------------------------------------------
(* CacheManager *)

\* CacheManager(dataset_manager, cache_dir=None)
NoCacheDir == "none"

NoFiles == [p \in {} |-> 0]

NoGet == [status |-> "none"]

\* No cache manager is in use.
CacheUnused ==
    /\ cache_dir = NoCacheDir
    /\ fs = NoFiles
    /\ lastget = NoGet
    /\ nputs = 0

\* A cache directory, when one is configured
CacheDirs == {"cache"}

\* Input files: two in one directory, and one of the same name in another
Inputs == {[dir |-> "a", stem |-> "x"], [dir |-> "a", stem |-> "y"],
           [dir |-> "b", stem |-> "x"]}

\* Configs a dataset is preprocessed under
Configs == {1, 2}

\* dataset_manager.data_format
DataFormat == "parquet"

\* calculate_checksum(input_fname, config): a hash of both, taken to differ
\* whenever the input or the config differs
CalculateChecksum(input, config) == <<input, config>>

\* CacheManager.get_cache_key, for an input file
GetCacheKey(input, config) == CalculateChecksum(input, config)

\* A file name without a key in it, and metadata without a CHECKSUM entry
NoKey == <<>>
NoChecksum == <<>>

\* tag=None, ext=None
NoTag == "none"
NoExt == "none"

\* CacheManager.get_cache_directory, for an input file
GetCacheDirectory(input) ==
    IF cache_dir = NoCacheDir THEN input.dir ELSE cache_dir

\* CacheManager.get_cache_path: '{key}.{tag}.{ext}' in the cache directory,
\* or '{tag}.{ext}' next to the input when no cache directory is configured;
\* the tag defaults to the input's stem and the ext to the data format.
GetCachePath(input, key, tag, ext) ==
    [dir |-> GetCacheDirectory(input),
     key |-> IF cache_dir = NoCacheDir THEN NoKey ELSE key,
     tag |-> IF tag = NoTag THEN input.stem ELSE tag,
     ext |-> IF ext = NoExt THEN DataFormat ELSE ext]

\* path_exists(path)
PathExists(files, path) == path \in DOMAIN files

\* save_json(path, metadata) and dataset_manager.save(path, ...): the file at
\* path is created or replaced.  Of a file's content only the CHECKSUM entry
\* of metadata is kept.
WriteFile(files, path, checksum) ==
    [q \in DOMAIN files \cup {path} |->
        IF q = path THEN [checksum |-> checksum] ELSE files[q]]

\* The files put_dataset writes after the metadata, in the order it does
WriteSets(files, input, key, test, val) ==
    LET f1 == WriteFile(files, GetCachePath(input, key, NoTag, NoExt), NoChecksum)
        f2 == IF test
              THEN WriteFile(f1, GetCachePath(input, key, "test", NoExt), NoChecksum)
              ELSE f1
    IN  IF val
        THEN WriteFile(f2, GetCachePath(input, key, "val", NoExt), NoChecksum)
        ELSE f2

\* CacheManager.put_dataset when can_cache allows it.  The metadata the caller
\* hands in names the key of this input and config as its CHECKSUM, or has
\* no CHECKSUM entry; the test and validation sets may be None.
PutDataset(input, config, stamped, test, val) ==
    /\ nputs < MaxPuts
    /\ LET key == GetCacheKey(input, config)
           meta == WriteFile(fs, GetCachePath(input, key, "meta", "json"),
                             IF stamped THEN key ELSE NoChecksum)
       IN  fs' = WriteSets(meta, input, key, test, val)
    /\ lastget' = NoGet
    /\ nputs' = nputs + 1
    /\ UNCHANGED <<nodes, trainer, cache_dir>>
    /\ UNCHANGED callVars

\* put_dataset when saving the training set raises: the metadata file has
\* been written, no dataset file has.
PutDatasetSaveRaises(input, config, stamped) ==
    /\ nputs < MaxPuts
    /\ LET key == GetCacheKey(input, config)
       IN  fs' = WriteFile(fs, GetCachePath(input, key, "meta", "json"),
                           IF stamped THEN key ELSE NoChecksum)
    /\ lastget' = NoGet
    /\ nputs' = nputs + 1
    /\ UNCHANGED <<nodes, trainer, cache_dir>>
    /\ UNCHANGED callVars

\* put_dataset when can_cache refuses: processed is returned, nothing written.
PutDatasetNoCache ==
    /\ nputs < MaxPuts
    /\ lastget' = NoGet
    /\ nputs' = nputs + 1
    /\ UNCHANGED <<nodes, trainer, cache_dir, fs>>
    /\ UNCHANGED callVars

\* What CacheManager.get_dataset returns: None without a metadata file, or
\* (valid, metadata, dataset_fp, test_fp, val_fp)
\* (variant: any metadata file with the training file makes the entry valid)
ValidWithoutChecksum(files, input, config) ==
    LET key == GetCacheKey(input, config)
        training_set_metadata_fp == GetCachePath(input, key, "meta", "json")
        dataset_fp == GetCachePath(input, key, NoTag, NoExt)
    IN  IF PathExists(files, training_set_metadata_fp)
        THEN [status |-> "hit", input |-> input, config |-> config,
              valid |-> PathExists(files, dataset_fp),
              metadata |-> files[training_set_metadata_fp],
              dataset_fp |-> dataset_fp,
              test_fp |-> GetCachePath(input, key, "test", NoExt),
              val_fp |-> GetCachePath(input, key, "val", NoExt)]
        ELSE [status |-> "miss", input |-> input, config |-> config]
GetDatasetResult(files, input, config) ==
    LET key == GetCacheKey(input, config)
        training_set_metadata_fp == GetCachePath(input, key, "meta", "json")
        dataset_fp == GetCachePath(input, key, NoTag, NoExt)
    IN  IF PathExists(files, training_set_metadata_fp)
        THEN [status |-> "hit", input |-> input, config |-> config,
              valid |-> /\ key = files[training_set_metadata_fp].checksum
                        /\ PathExists(files, dataset_fp),
              metadata |-> files[training_set_metadata_fp],
              dataset_fp |-> dataset_fp,
              test_fp |-> GetCachePath(input, key, "test", NoExt),
              val_fp |-> GetCachePath(input, key, "val", NoExt)]
        ELSE [status |-> "miss", input |-> input, config |-> config]

\* CacheManager.get_dataset: reads, writes nothing.
GetDataset(input, config) ==
    /\ lastget' = GetDatasetResult(fs, input, config)
    /\ UNCHANGED <<nodes, trainer, cache_dir, fs, nputs>>
    /\ UNCHANGED callVars

----------------------------------------------------------------------------
(* RayBackend.create_trainer and RayTrainer.__init__ *)

Fields == {"num_slots", "num_hosts", "use_gpu"}

\* Values a caller may give in horovod_kwargs
OverrideCounts == {3}

\* A dict that holds the fields F with the given values
KwargsOf(F, slots, hosts, gpu) ==
    [f \in F |-> CASE f = "num_slots" -> slots
                   [] f = "num_hosts" -> hosts
                   [] OTHER -> gpu]

\* RayBackend._horovod_kwargs: a dict over some of the fields
HorovodKwargs ==
    {KwargsOf(F, s, h, g) : F \in SUBSET Fields, s \in OverrideCounts,
                            h \in OverrideCounts, g \in BOOLEAN}

\* {**get_horovod_kwargs(), **horovod_kwargs}: a key of the right dict wins
\* (variant: the dicts merged the other way round)
DerivedWins(derived, horovod_kwargs) ==
    [f \in DOMAIN derived \cup DOMAIN horovod_kwargs |->
        IF f \in DOMAIN derived THEN derived[f] ELSE horovod_kwargs[f]]
MergeKwargs(derived, horovod_kwargs) ==
    [f \in DOMAIN derived \cup DOMAIN horovod_kwargs |->
        IF f \in DOMAIN horovod_kwargs THEN horovod_kwargs[f] ELSE derived[f]]

NoTrainer == [status |-> "none"]

\* max(buckets.keys(), key=get_total_resources): max() of no keys raises the
\* built-in ValueError; with a report there is a key.
MaxRaises(resources) == IF resources = <<>> THEN "ValueError" ELSE "none"

\* A caller that holds a model and has issued no call
CallInit ==
    /\ model \in Weights
    /\ store = <<>>
    /\ ncalls = 0
    /\ call = NoCall
    /\ workers = [w \in Workers |-> IdleWorker]
    /\ stream = NoStream
    /\ tasks = <<>>
    /\ actors = <<>>
    /\ validation = [w \in Workers |-> NoValidation]
    /\ nshutdown = 0
    /\ CacheUnused

ClusterInit ==
    /\ nodes = <<>>
    /\ trainer = NoTrainer
    /\ CallInit
    /\ model = 0

\* The cluster runtime: a node joins and reports its resources.
NodeJoin ==
    /\ trainer.status = "none"
    /\ Len(nodes) < MaxNodes
    /\ \E r \in NodeResources : nodes' = Append(nodes, r)
    /\ UNCHANGED trainer
    /\ UNCHANGED callVars
    /\ UNCHANGED cacheVars

\* RayBackend(horovod_kwargs).create_trainer(): RayTrainer.__init__ reads the
\* reports, merges the caller's horovod_kwargs over the derived dict and
\* starts the executor.
CreateTrainer ==
    /\ trainer.status = "none"
    /\ MaxRaises(nodes) = "none"
    /\ \E kw \in HorovodKwargs :
        /\ trainer' = [status |-> "started",
                       resources |-> nodes,
                       horovod_kwargs |-> kw,
                       derived |-> GetHorovodKwargs(nodes),
                       config |-> MergeKwargs(GetHorovodKwargs(nodes), kw)]
    /\ UNCHANGED nodes
    /\ UNCHANGED callVars
    /\ UNCHANGED cacheVars

\* RayTrainer.__init__ when get_horovod_kwargs() raises: the exception leaves
\* __init__ before RayExecutor(...) is constructed, so no executor exists.
\* (variant: an executor is started with the caller's horovod_kwargs alone)
StartWithoutDerived ==
    /\ trainer.status = "none"
    /\ nodes = <<>>
    /\ \E kw \in HorovodKwargs :
        trainer' = [status |-> "started", resources |-> nodes,
                    horovod_kwargs |-> kw, derived |-> kw, config |-> kw]
    /\ UNCHANGED nodes
    /\ UNCHANGED callVars
    /\ UNCHANGED cacheVars
CreateTrainerNoNodes ==
    /\ trainer.status = "none"
    /\ MaxRaises(nodes) # "none"
    /\ trainer' = [status |-> "error", error |-> MaxRaises(nodes)]
    /\ UNCHANGED nodes
    /\ UNCHANGED callVars
    /\ UNCHANGED cacheVars

ClusterNext == NodeJoin \/ CreateTrainer \/ CreateTrainerNoNodes

ClusterSpec == ClusterInit /\ [][ClusterNext]_vars

----------------------------------------------------------------------------
(* One caller of a trainer and a predictor *)

Init ==
    /\ nodes = <<>>
    /\ trainer = NoTrainer
    /\ CallInit

Next ==
    \/ \E kind \in TrainKinds : TrainBegin(kind)
    \/ \E w \in Workers : WorkerLoad(w)
    \/ \E w \in Workers : WorkerTrain(w)
    \/ TrainReconcile
    \/ TrainExecuteRaises
    \/ \E n \in 1..MaxPartitions : BatchPredict(n)
    \/ \E n \in 1..MaxPartitions : BatchEvaluation(n)
    \/ \E p \in 1..MaxPartitions : TaskRun(p)
    \/ \E p \in 1..MaxPartitions : ProcessAdd(p)
    \/ ProcessCollect

Spec == Init /\ [][Next]_vars

----------------------------------------------------------------------------
(* The first batch_evaluation call of a predictor *)

FirstBatchEvaluation ==
    /\ ncalls = 0
    /\ \E n \in 1..EvalPartitions : BatchEvaluation(n)

EvalNext ==
    \/ FirstBatchEvaluation
    \/ \E p \in 1..EvalPartitions : TaskRun(p)
    \/ \E p \in 1..EvalPartitions : ProcessAdd(p)
    \/ ProcessCollect

EvalSpec == Init /\ [][EvalNext]_vars

----------------------------------------------------------------------------
(* One caller of a trainer *)

TrainerNext ==
    \/ \E kind \in TrainKinds : TrainBegin(kind)
    \/ \E w \in Workers : WorkerLoad(w)
    \/ \E w \in Workers : WorkerTrain(w)
    \/ TrainReconcile
    \/ TrainExecuteRaises
    \/ \E attr \in QueryKinds : ValidationQuery(attr)

TrainerSpec == Init /\ [][TrainerNext]_vars

----------------------------------------------------------------------------
(* One caller of a predictor, with shutdown *)

PredictorNext ==
    \/ \E n \in 1..MaxPartitions : BatchPredict(n)
    \/ \E n \in 1..MaxPartitions : BatchEvaluation(n)
    \/ BatchEvaluationCaptureFails
    \/ \E n \in 1..MaxPartitions : BatchCollectActivations(n)
    \/ \E p \in 1..MaxPartitions : TaskRun(p)
    \/ \E p \in 1..MaxPartitions : ProcessAdd(p)
    \/ \E p \in 1..MaxPartitions : AddFails(p)
    \/ ProcessCollect
    \/ PredictorShutdown

PredictorSpec == Init /\ [][PredictorNext]_vars

----------------------------------------------------------------------------
(* One user of a cache manager *)

\* The caller is idle; a cache manager with or without a cache directory
CacheInit ==
    /\ nodes = <<>>
    /\ trainer = NoTrainer
    /\ model = 0
    /\ store = <<>>
    /\ ncalls = 0
    /\ call = NoCall
    /\ workers = [w \in Workers |-> IdleWorker]
    /\ stream = NoStream
    /\ tasks = <<>>
    /\ actors = <<>>
    /\ validation = [w \in Workers |-> NoValidation]
    /\ nshutdown = 0
    /\ cache_dir \in {NoCacheDir} \cup CacheDirs
    /\ fs = NoFiles
    /\ lastget = NoGet
    /\ nputs = 0

CacheNext ==
    \/ \E input \in Inputs, config \in Configs, stamped, test, val \in BOOLEAN :
            PutDataset(input, config, stamped, test, val)
    \/ \E input \in Inputs, config \in Configs, stamped \in BOOLEAN :
            PutDatasetSaveRaises(input, config, stamped)
    \/ PutDatasetNoCache
    \/ \E input \in Inputs, config \in Configs : GetDataset(input, config)

CacheSpec == CacheInit /\ [][CacheNext]_vars

----------------------------------------------------------------------------
(* The resource bucketer and the worker-group configuration: C1, C2, C9, C10 *)

Started == trainer.status = "started"

\* The nodes of `resources` that report `slots` units of resource `key`
NodesReporting(resources, key, slots) ==
    {i \in 1..Len(resources) :
        (IF key = "GPU" THEN resources[i].GPU ELSE resources[i].CPU) = slots}

\* The counts of resource `key` the nodes report
CountsReported(resources, key) ==
    {IF key = "GPU" THEN resources[i].GPU ELSE resources[i].CPU :
        i \in 1..Len(resources)}

ScoreOf(resources, key, slots) ==
    slots * Cardinality(NodesReporting(resources, key, slots))

\* The position of the first report with that count
FirstSeen(resources, key, slots) ==
    CHOOSE i \in NodesReporting(resources, key, slots) :
        \A j \in NodesReporting(resources, key, slots) : i <= j

KindOf(use_gpu) == IF use_gpu THEN "GPU" ELSE "CPU"

\* C1: for a non-empty list of reports the dict get_horovod_kwargs returns is
\* a bucket of the chosen resource kind (num_slots a reported count, num_hosts
\* the number of nodes reporting it) whose num_slots * num_hosts is maximal
\* over all buckets, and among buckets of maximal score it is the one whose
\* count is reported first.
C1_MaxBucketFirstSeen ==
    Started =>
        LET res == trainer.resources
            d == trainer.derived
            key == KindOf(d.use_gpu)
        IN  /\ d.num_slots \in CountsReported(res, key)
            /\ d.num_hosts = Cardinality(NodesReporting(res, key, d.num_slots))
            /\ \A c \in CountsReported(res, key) :
                /\ ScoreOf(res, key, c) <= d.num_slots * d.num_hosts
                /\ (c # d.num_slots
                        /\ ScoreOf(res, key, c) = d.num_slots * d.num_hosts)
                    => FirstSeen(res, key, d.num_slots) < FirstSeen(res, key, c)

\* Two buckets share the maximal score, and the one selected is not the one
\* with the greater count.
C1_Witness ==
    /\ Started
    /\ LET res == trainer.resources
           d == trainer.derived
           key == KindOf(d.use_gpu)
       IN  \E c \in CountsReported(res, key) :
            /\ c > d.num_slots
            /\ ScoreOf(res, key, c) = d.num_slots * d.num_hosts
            /\ d.num_slots * d.num_hosts > 0

GpuCounts(resources) == [i \in 1..Len(resources) |-> resources[i].GPU]

\* C2: when the cluster's GPU total is positive the nodes are grouped by GPU
\* count, use_gpu is true and the bucket of zero-count nodes is not selected;
\* a bucket of 0 slots is selected only when every node reports 0 of the
\* chosen kind; GPU counts [2,2,2,0] give slots 2, nodes 3, use_gpu.
C2_GpuPreferredZeroBucketLast ==
    Started =>
        LET res == trainer.resources
            d == trainer.derived
        IN  /\ (\E i \in 1..Len(res) : res[i].GPU > 0) =>
                /\ d.use_gpu = TRUE
                /\ d.num_slots > 0
                /\ d.num_hosts
                     = Cardinality({i \in 1..Len(res) : res[i].GPU = d.num_slots})
            /\ d.num_slots = 0 =>
                CountsReported(res, KindOf(d.use_gpu)) = {0}
            /\ GpuCounts(res) = <<2, 2, 2, 0>> =>
                d = [num_slots |-> 2, num_hosts |-> 3, use_gpu |-> TRUE]

\* The 4-node cluster with GPU counts [2,2,2,0], whose nodes all have a CPU.
C2_Witness ==
    /\ Started
    /\ GpuCounts(trainer.resources) = <<2, 2, 2, 0>>
    /\ \A i \in 1..4 : trainer.resources[i].CPU = 1
    /\ trainer.derived.num_hosts = 3

\* C9: each of num_slots, num_hosts and use_gpu of the executor's
\* configuration is the caller's value when horovod_kwargs holds the field and
\* the value get_horovod_kwargs derived otherwise.
C9_OverridesFieldByField ==
    Started =>
        \A f \in Fields :
            /\ f \in DOMAIN trainer.config
            /\ f \in DOMAIN trainer.horovod_kwargs
                => trainer.config[f] = trainer.horovod_kwargs[f]
            /\ f \notin DOMAIN trainer.horovod_kwargs
                => trainer.config[f] = trainer.derived[f]

\* Only num_slots is overridden, to a value the bucketer did not derive.
C9_Witness ==
    /\ Started
    /\ DOMAIN trainer.horovod_kwargs = {"num_slots"}
    /\ trainer.config.num_slots # trainer.derived.num_slots
    /\ trainer.config.num_hosts = trainer.derived.num_hosts
    /\ trainer.config.use_gpu = trainer.derived.use_gpu

\* The nodes counted by the configuration are exactly those that report
\* num_slots units of the kind use_gpu selects.
Homogeneous(resources, config) ==
    Cardinality(NodesReporting(resources, KindOf(config.use_gpu),
                               config.num_slots)) = config.num_hosts

\* C10 as stated: for every started worker group the num_hosts nodes of the
\* configuration each report exactly num_slots units of the resource use_gpu
\* selects.
C10_Original == Started => Homogeneous(trainer.resources, trainer.config)

\* C10 as amended: the same, for a worker group started without overrides in
\* horovod_kwargs.
C10_HomogeneousWithoutOverrides ==
    (Started /\ DOMAIN trainer.horovod_kwargs = {})
        => Homogeneous(trainer.resources, trainer.config)

\* A mixed cluster: a group started without overrides that leaves nodes out.
C10_Witness ==
    /\ Started
    /\ DOMAIN trainer.horovod_kwargs = {}
    /\ trainer.config.num_hosts < Len(trainer.resources)
    /\ trainer.config.num_slots > 0

----------------------------------------------------------------------------
(* Training calls: C3, C4 *)

\* C3: when train or train_online returns, the caller's model holds exactly
\* the weights of the first worker's result, and train returns that worker's
\* stats, whatever the other workers returned.
C3_FirstWorkerIsCanonical ==
    (call.kind \in TrainKinds /\ call.status = "returned") =>
        /\ call.results[1].tag = "value"
        /\ model = call.results[1].weights
        /\ call.kind = "train" => call.stats = call.results[1].stats

\* train has returned although the second worker's weights differ from the
\* first's, and the caller's weights have changed.
C3_Witness ==
    /\ call.kind = "train"
    /\ call.status = "returned"
    /\ call.results[2].tag = "value"
    /\ call.results[2].weights # call.results[1].weights
    /\ model # call.before

\* A closure dispatched by the call has raised: a worker's, or a partition
\* task's of the stream the call made.
SomeClosureRaised ==
    \/ /\ call.kind \in TrainKinds
       /\ \E w \in Workers : call.results[w].tag = "raised"
    \/ /\ call.kind \in InferKinds
       /\ stream.call = call.id
       /\ \E p \in DOMAIN tasks : tasks[p].pc = "raised"

----------------------------------------------------------------------------
(* batch_evaluation and the MetricCollector: C5, C6 *)

RECURSIVE LossOver(_)
\* The losses of a set of partitions, added up
LossOver(parts) ==
    IF parts = {} THEN 0
    ELSE LET p == CHOOSE q \in parts : TRUE
         IN  PartitionLoss(p) + LossOver(parts \ {p})

\* The metrics of a set of partitions, merged
MergedOver(parts) ==
    IF parts = {} THEN NoMetrics
    ELSE [k \in MetricNames |->
            IF k = "loss" THEN LossOver(parts) ELSE Cardinality(parts)]

\* C5 as stated: when collect is processed the collector has received one
\* metrics mapping from each partition, so batch_evaluation returns the sum
\* over all partitions.
C5_Original ==
    (call.kind = "batch_evaluation" /\ call.status = "returned")
        => call.metrics = MergedOver(DOMAIN tasks)

AddsProcessed == {p \in DOMAIN tasks : tasks[p].pc = "done"}

\* C6: the collector holds one mapping for each add it has processed, none
\* lost, and collect returns for each metric the sum over those mappings,
\* whatever the order they arrived in; losses 1.0, 2.0 and 0.5 give 3.5.
C6_AddsSerializedSumOrderFree ==
    stream.kind = "batch_evaluation" =>
        LET collector == actors[stream.actor]
        IN  /\ Len(collector.metrics) = Cardinality(AddsProcessed)
            /\ Collect(collector) = MergedOver(AddsProcessed)
            /\ AddsProcessed = {1, 2, 3} => Collect(collector)["loss"] = 7

\* Three partitions' adds have all been processed, in an order that is not
\* the partitions' order.
C6_Witness ==
    /\ stream.kind = "batch_evaluation"
    /\ AddsProcessed = {1, 2, 3}
    /\ actors[stream.actor].metrics
         = <<PartitionMetrics(3), PartitionMetrics(1), PartitionMetrics(2)>>

----------------------------------------------------------------------------
(* RayRemoteModel: C7, C8 *)

\* C7: an instance a worker or a partition task has loaded holds the state the
\* model had when the call captured it, whatever has since been done to the
\* caller's model or to another loaded instance.
C7_LoadGivesCapturedState ==
    /\ \A w \in Workers :
        workers[w].pc = "loaded" => workers[w].inst = call.before
    /\ \A p \in DOMAIN tasks :
        tasks[p].loaded # NoWeights => tasks[p].loaded = stream.captured

\* A partition task holds a loaded instance and a worker has just loaded one,
\* while another worker has trained its own instance to other weights.
C7_Witness ==
    /\ \E p \in DOMAIN tasks : tasks[p].loaded # NoWeights
    /\ call.kind \in TrainKinds
    /\ workers[2].pc = "loaded"
    /\ workers[1].result.tag = "value"
    /\ workers[1].result.weights # workers[2].inst

\* Every call begun has put exactly one entry in the object store, and the
\* handles in use are those of the calls that made them.
OnePutPerCall ==
    /\ \A c \in 1..ncalls :
        Cardinality({i \in DOMAIN store : store[i].call = c}) = 1
    /\ call.id > 0 => store[call.handle].call = call.id
    /\ stream.call > 0 => store[stream.handle].call = stream.call

\* No step removes or rewrites an entry of the object store.
EntriesKept ==
    \A i \in DOMAIN store : i \in DOMAIN store' /\ store'[i] = store[i]

----------------------------------------------------------------------------
(* An empty report list: C11 *)

\* A trainer was asked for while no node had reported.
CreatedWithoutReports == nodes = <<>> /\ trainer.status # "none"

\* C11 as stated: with no node reports, creating the trainer fails with an
\* error named ResourceDiscoveryError and no worker group is created.
C11_Original ==
    CreatedWithoutReports =>
        trainer.status = "error" /\ trainer.error = "ResourceDiscoveryError"

\* C11, amended: with no node reports, creating the trainer fails with the
\* ValueError that max() raises on no bucket keys, and no executor is
\* created or started.
C11_EmptyReportsValueError ==
    CreatedWithoutReports =>
        trainer.status = "error" /\ trainer.error = "ValueError"

C11_Witness == CreatedWithoutReports /\ trainer.status = "error"

----------------------------------------------------------------------------
(* RayPredictor.shutdown: C13 *)

\* An actor whose creating call published nothing: the call failed.
CreatedByFailedCall(a) ==
    \A h \in DOMAIN store : store[h].call # actors[a].call

\* C13: when shutdown has returned, every collector actor that any
\* batch_evaluation call created, the failed calls included, is dead, and
\* shutdown returns whatever came before it, another shutdown included.
C13_ShutdownReleasesEveryActor ==
    call.kind = "shutdown" =>
        /\ call.status = "returned"
        /\ \A a \in DOMAIN actors : ~actors[a].alive

C13_Witness ==
    /\ call.kind = "shutdown"
    /\ nshutdown = 2
    /\ Len(actors) = 2
    /\ \E a \in DOMAIN actors : CreatedByFailedCall(a)
    /\ \E a \in DOMAIN actors : ~CreatedByFailedCall(a)

----------------------------------------------------------------------------
(* The lifetime of a MetricCollector: C14 *)

LiveCollectors == {a \in DOMAIN actors : actors[a].alive}

EvaluationReturned ==
    call.kind = "batch_evaluation" /\ call.status = "returned"

\* C14 as stated: a call's collector is discarded once its merged result has
\* been read, so at most the collector of a call in progress is alive.
C14_Original ==
    /\ EvaluationReturned => ~actors[stream.actor].alive
    /\ Cardinality(LiveCollectors) <= 1

\* The merged metrics a call returned come from its own partitions alone.
OwnMetricsOnly ==
    EvaluationReturned =>
        \E parts \in SUBSET DOMAIN tasks : call.metrics = MergedOver(parts)

\* Until the first shutdown every collector created is alive.
AliveUntilShutdown ==
    nshutdown = 0 => LiveCollectors = DOMAIN actors

\* A batch_evaluation call begins with one more collector, a new and empty
\* one, and leaves the others as they are.
OneMoreCollector ==
    (ncalls' = ncalls + 1 /\ call'.kind = "batch_evaluation") =>
        /\ Len(actors') = Len(actors) + 1
        /\ actors'[Len(actors')].metrics = <<>>
        /\ \A a \in DOMAIN actors : actors'[a] = actors[a]

\* C14, amended: every batch_evaluation call creates its own collector and
\* never adds to or reads from another call's; the collector is not discarded
\* when the merged result has been read but stays alive until shutdown, so
\* the number of live collectors grows by one with every call.
C14_OwnCollectorKeptUntilShutdown ==
    /\ [](OwnMetricsOnly /\ AliveUntilShutdown)
    /\ [][OneMoreCollector]_vars

\* Two calls have completed and both their collectors are alive.
C14_Witness ==
    /\ EvaluationReturned
    /\ call.metrics = MergedOver({1})
    /\ nshutdown = 0
    /\ Cardinality(LiveCollectors) = 2
    /\ \A a \in DOMAIN actors : ~CreatedByFailedCall(a)

----------------------------------------------------------------------------
(* validation_field and validation_metric: C15 *)

TrainReturned == call.kind \in TrainKinds /\ call.status = "returned"

\* A query fails exactly while the first worker's trainer has no value, and
\* otherwise returns that worker's value.
QueryAnswer ==
    call.kind \in QueryKinds =>
        IF validation[1] = NoValidation
        THEN call.status = "failed" /\ call.error = "NotYetTrainedError"
        ELSE call.status = "returned" /\ call.value = ValidationOf(1)

\* The first worker's trainer has no value before the first dispatch and has
\* one when a train call has returned.
DefinedByTrain ==
    /\ ncalls = 0 => validation[1] = NoValidation
    /\ TrainReturned => validation[1] # NoValidation

\* A query changes nothing but the caller's record of its last call.
QueryChangesNothing ==
    (call' # call /\ call'.kind \in QueryKinds) =>
        UNCHANGED <<model, store, ncalls, workers, validation>>

----------------------------------------------------------------------------
(* batch_collect_activations: C16 *)

ActivationsCalled == call.kind = "batch_collect_activations"

\* The call has failed with NotImplementedError.
ActivationsUnsupported ==
    ActivationsCalled =>
        call.status = "failed" /\ call.error = "NotImplementedError"

\* The call publishes no model state, creates no actor and schedules no task.
ActivationsTouchNothing ==
    (call' # call /\ call'.kind = "batch_collect_activations") =>
        UNCHANGED <<model, store, actors, stream, tasks, ncalls>>

\* C16: batch_collect_activations fails with NotImplementedError whatever the
\* model, the arguments and the predictor's state, without capturing the
\* model, creating an actor or scheduling a task.
C16_ActivationsAlwaysUnsupported ==
    /\ []ActivationsUnsupported
    /\ [][ActivationsTouchNothing]_vars

\* The call failed in a predictor that had served an evaluation whose task
\* is still waiting for the collector, and after a shutdown.
C16_Witness ==
    /\ ActivationsCalled
    /\ call.status = "failed"
    /\ Len(actors) = 1
    /\ nshutdown = 1
    /\ \E p \in DOMAIN tasks : tasks[p].pc = "adding"

----------------------------------------------------------------------------
(* A partition task waits for its add_metrics: C17 *)

\* The mappings the stream's collector has received
Received ==
    {actors[stream.actor].metrics[i] : i \in DOMAIN actors[stream.actor].metrics}

\* C17: whenever the predictions of a partition of a batch_evaluation are
\* available, the collector has already received that partition's metrics
\* mapping: the task returns only after the actor processed its add_metrics.
C17_PredictionsAfterAdd ==
    stream.kind = "batch_evaluation" =>
        \A p \in DOMAIN tasks :
            tasks[p].pc = "done" => PartitionMetrics(p) \in Received

\* One partition's predictions are available and its mapping is the only one
\* received, while another task still waits for the actor's reply.
C17_Witness ==
    /\ stream.kind = "batch_evaluation"
    /\ DOMAIN tasks = {1, 2, 3}
    /\ tasks[2].pc = "done"
    /\ tasks[1].pc = "adding"
    /\ Received = {PartitionMetrics(2)}

----------------------------------------------------------------------------
(* The phases of a train call: C18 *)

\* Where the trainer is: in no train call, waiting in execute, or past
\* execute's return and about to set the weights.
Phase ==
    IF call.status = "running" /\ call.kind \in TrainKinds
    THEN IF Execute(workers) = "returns" THEN "Reconciling" ELSE "Dispatching"
    ELSE "Idle"

\* The steps between phases: a call begins by capturing the model and
\* dispatching to every worker; it reconciles once every worker has returned;
\* it ends idle, from reconciling, or from dispatching when execute raised.
PhaseStep ==
    \/ Phase' = Phase
    \/ /\ Phase = "Idle" /\ Phase' = "Dispatching"
       /\ Len(store') = Len(store) + 1
       /\ store'[Len(store')].state = model
       /\ \A w \in Workers : workers'[w].pc = "dispatched"
    \/ /\ Phase = "Dispatching" /\ Phase' = "Reconciling"
       /\ \A w \in Workers : workers'[w].pc = "returned"
    \/ /\ Phase = "Reconciling" /\ Phase' = "Idle"
       /\ call'.status \in {"returned", "failed"}
    \/ /\ Phase = "Dispatching" /\ Phase' = "Idle"
       /\ \E w \in Workers : workers[w].pc = "raised"
       /\ call'.status = "failed"
       /\ model' = model

\* The caller's weights change only in the step that leaves Reconciling.
ReconcileLast ==
    model' # model =>
        /\ Phase = "Reconciling" /\ Phase' = "Idle"
        /\ \A w \in Workers : workers[w].pc = "returned"

\* A train call that has ended, either way, left the trainer idle with every
\* worker idle, and the next call can be dispatched.
EndsIdle ==
    (call.kind \in TrainKinds /\ call.status \in {"returned", "failed"}) =>
        /\ Phase = "Idle"
        /\ \A w \in Workers : workers[w] = IdleWorker
        /\ ncalls < MaxCalls => ENABLED TrainBegin("train")

\* C18: a train or train_online call goes Idle, Dispatching, Reconciling,
\* Idle: it captures the model and dispatches first, sets the weights only
\* after every worker's result has come back, and whether it returns or
\* fails it ends idle, so that a later call can be dispatched.
C18_IdleDispatchReconcileIdle ==
    /\ []EndsIdle
    /\ [][PhaseStep /\ ReconcileLast]_vars

\* A call failed because a worker raised, and the next can be dispatched.
C18_Witness ==
    /\ call.kind = "train"
    /\ call.status = "failed"
    /\ call.error = "WorkerError"
    /\ Phase = "Idle"
    /\ ENABLED TrainBegin("train_online")

----------------------------------------------------------------------------
(* A worker that returns None: C19 *)

\* A closure whose base-class method gave None returns None itself.
NonePassedThrough ==
    \A w \in Workers :
        (workers[w].pc = "returned" /\ workers[w].trained = NoWeights)
            => workers[w].result = NoneResult

\* A train call whose first worker returned None has failed and left the
\* caller's weights as they were.
FirstNoneFails ==
    (call.kind = "train" /\ call.status # "running"
        /\ FirstResult(call.results).tag = "none")
        => call.status = "failed" /\ model = call.before

\* C19: a worker whose train or train_online produced nothing returns None
\* unchanged, and when the first worker did so, the trainer's train fails
\* and the caller's weights stay as they were.
C19_NoneFirstResultFailsTrain == NonePassedThrough /\ FirstNoneFails

\* train failed on the first worker's None though the other returned weights.
C19_Witness ==
    /\ call.kind = "train"
    /\ call.status = "failed"
    /\ call.error = "TypeError"
    /\ FirstResult(call.results).tag = "none"
    /\ call.results[NumWorkers].tag = "value"
    /\ model = call.before

----------------------------------------------------------------------------
(* The dataset cache: C20 *)

\* The file a cache entry's part is expected in: in the cache directory under
\* a name that begins with the key, or next to the input under a name
\* without it.
ExpectedFile(input, config, tag, ext) ==
    IF cache_dir = NoCacheDir
    THEN [dir |-> input.dir, key |-> NoKey, tag |-> tag, ext |-> ext]
    ELSE [dir |-> cache_dir, key |-> <<input, config>>, tag |-> tag, ext |-> ext]

Got == lastget.status # "none"

MetaFile == ExpectedFile(lastget.input, lastget.config, "meta", "json")

TrainingFile ==
    ExpectedFile(lastget.input, lastget.config, lastget.input.stem, DataFormat)

\* The stored metadata names another config of the same input.
OtherConfigStored ==
    /\ MetaFile \in DOMAIN fs
    /\ \E other \in Configs \ {lastget.config} :
            fs[MetaFile].checksum = <<lastget.input, other>>

\* C20: get_dataset returns None exactly when there is no metadata file at
\* the cache path of the input and key; otherwise valid is true exactly when
\* the key of (input, config) is the stored metadata's checksum and the
\* training-set file exists; without a cache directory, after a put for
\* another config of the same input, a get for the earlier config reports
\* valid = false.
C20_MissOrValidByChecksum ==
    Got =>
        /\ lastget.status = "miss" <=> MetaFile \notin DOMAIN fs
        /\ lastget.status = "hit" =>
              /\ lastget.valid <=>
                    /\ fs[MetaFile].checksum = <<lastget.input, lastget.config>>
                    /\ TrainingFile \in DOMAIN fs
              /\ lastget.metadata = fs[MetaFile]
        /\ (cache_dir = NoCacheDir /\ OtherConfigStored) =>
              lastget.status = "hit" /\ ~lastget.valid

\* Without a cache directory, two puts for one input under two configs, then
\* a get for the first config: the training file is there, the entry is
\* reported as not valid.
C20_Witness ==
    /\ Got
    /\ cache_dir = NoCacheDir
    /\ nputs = 2
    /\ lastget.config = 1
    /\ OtherConfigStored
    /\ TrainingFile \in DOMAIN fs
    /\ lastget.status = "hit"
    /\ ~lastget.valid

=============================================================================
